---- MODULE Spec2Model ----
(***************************************************************************)
(* BaseDataset of autogluon.multimodal.data.dataset: the constructor, that *)
(* stores the per-modality features and checks their sample numbers,       *)
(* __len__, and __getitem__ with its retry on the next sample.             *)
(*                                                                         *)
(* The preprocessors and the processors are external.  A preprocessor's    *)
(* transform_<modality>(data) is an input (data); a processor is a         *)
(* function of (features, idx, is_training) that either returns a          *)
(* dictionary or raises (bad).  A dictionary is a function from its keys.  *)
(* Groups are numbered from 1 here and from 0 in the code.  The            *)
(* preprocessor list has one preprocessor per processor group, so that     *)
(* zip(preprocessor, processors) visits every group.                       *)
(***************************************************************************)
EXTENDS Integers, Sequences, FiniteSets, TLC

\* ---------------------------------------------------------------- bounds
\* Largest sample number of a modality.
MaxLen == 3
\* The retry limit.  The code imports it from ..constants (dataset.py:7);
\* the model runs it scaled down.
GET_ITEM_ERROR_RETRY == 2
\* __getitem__ is not called any more once _consecutive_errors has passed
\* GET_ITEM_ERROR_RETRY by this much (the counter is unbounded in the code).
MaxExtraErrors == 1

\* ------------------------------------------------------- the constructor's
\* processors argument: a list of groups, each an ordered dictionary from a
\* modality to the list of its model processors (here numbered 1..4).
processors ==
    << << [modality |-> "text",  procs |-> <<1, 2>>],
          [modality |-> "image", procs |-> <<3>>] >>,
       << [modality |-> "label", procs |-> <<4>>] >> >>

ProcIds == 1..4

\* The keys of the dictionary a processor returns for sample idx.  1 and 2
\* collide on "k" within a modality, 1 and 3 on "a" across modalities, 3 and
\* 4 on "c" across groups; 1 has a key that only odd samples get.
ProcKeys(p, idx) ==
    CASE p = 1 -> {"a", "k"} \cup (IF idx % 2 = 1 THEN {"o"} ELSE {})
      [] p = 2 -> {"b", "k"}
      [] p = 3 -> {"a", "c"}
      [] OTHER -> {"c", "y"}

Slots == UNION { { <<processors[i][m].modality, i>> : m \in 1..Len(processors[i]) } :
                 i \in 1..Len(processors) }

\* A feature dictionary, as transform_<modality> returns it: the modality
\* and group it belongs to and the length of its first column; rows = -1 is
\* the empty dictionary.
NoRows == 0 - 1
Features == [modality : {s[1] : s \in Slots}, group : 1..Len(processors),
             rows : {NoRows} \cup 0..MaxLen]

\* `if per_modality_features:`
Truthy(f) == f.rows # NoRows

EmptyDict == [k \in {} |-> 0]
NoExc == [sample |-> 0 - 1, proc |-> 0]

VARIABLES
    data,                \* slot -> what transform_<modality>(data) returns
    is_training,         \* self.is_training
    bad,                 \* sample -> the processor that raises on it, 0: none
    attrs,               \* self.<modality>_<i>, a function of the slots set
    lengths,             \* self.lengths
    consecutive_errors,  \* self._consecutive_errors
    pc,                  \* "new", "rejected" (the assertion failed), "idle",
                         \* "running" (inside a __getitem__ call)
    stack,               \* the frames of __getitem__, the innermost last
    result,              \* how the last call ended: "none", "returned", "raised"
    retval,              \* the dictionary it returned
    exc,                 \* the exception it raised
    idx0,                \* the idx of the outermost call
    startErrors,         \* _consecutive_errors when that call was made
    attempted,           \* the sample indices the call has processed
    invoked,             \* the processor invocations of the call
    failedSince          \* failed attempts since the last successful one

vars == <<data, is_training, bad, attrs, lengths, consecutive_errors, pc, stack,
          result, retval, exc, idx0, startErrors, attempted, invoked, failedSince>>

RECURSIVE SeqRange(_)
SeqRange(s) == IF s = <<>> THEN {} ELSE {Head(s)} \cup SeqRange(Tail(s))

\* --------------------------------------------------------------- __init__
\* Lines 49-53 for one group: the lengths appended for its modalities.
RECURSIVE GroupLengths(_, _, _)
GroupLengths(ms, i, d) ==
    IF ms = <<>> THEN <<>>
    ELSE LET f == d[<<Head(ms).modality, i>>]
         IN  (IF Truthy(f) THEN <<f.rows>> ELSE <<>>) \o GroupLengths(Tail(ms), i, d)

\* Line 48, from group i on.
RECURSIVE CollectLengths(_, _)
CollectLengths(i, d) ==
    IF i > Len(processors) THEN <<>>
    ELSE GroupLengths(processors[i], i, d) \o CollectLengths(i + 1, d)

AssertOkLoose(ls) == Cardinality(SeqRange(ls)) >= 1
\* `assert len(set(self.lengths)) == 1`
AssertOk(ls) == Cardinality(SeqRange(ls)) = 1

\* __len__
DatasetLen == lengths[1]

Construct ==
    /\ pc = "new"
    /\ attrs' = data
    /\ lengths' = CollectLengths(1, data)
    /\ consecutive_errors' = 0
    /\ pc' = IF AssertOk(lengths') THEN "idle" ELSE "rejected"
    /\ UNCHANGED <<data, is_training, bad, stack, result, retval, exc, idx0,
                   startErrors, attempted, invoked, failedSince>>

\* ------------------------------------------------------------ __getitem__
\* dict.update
UpdateKeepFirst(d, e) ==
    [k \in DOMAIN d \cup DOMAIN e |-> IF k \in DOMAIN d THEN d[k] ELSE e[k]]
Update(d, e) ==
    [k \in DOMAIN d \cup DOMAIN e |-> IF k \in DOMAIN e THEN e[k] ELSE d[k]]

\* A processor's call: it raises on the sample that is bad for it and on an
\* index outside its features, and else returns a dictionary of its keys.
Raises(p, f, idx) == idx \notin 0..(f.rows - 1) \/ bad[idx] = p
Output(p, f, idx, train) ==
    [k \in ProcKeys(p, idx) |-> [by |-> p, feat |-> f, idx |-> idx, train |-> train]]

\* Lines 84-87 for the processors ps of one modality, from the state st of
\* the try block: the dictionary so far, the invocations and the exception.
RECURSIVE RunProcs(_, _, _, _)
RunProcs(ps, f, idx, st) ==
    IF st.exc # NoExc \/ ps = <<>> THEN st
    ELSE LET p == Head(ps)
             call == <<p, f, idx, is_training>>
         IN  IF ~Truthy(f) THEN RunProcs(Tail(ps), f, idx, st)
             ELSE IF Raises(p, f, idx)
                  THEN [st EXCEPT !.calls = Append(@, call),
                                  !.exc = [sample |-> idx, proc |-> p]]
                  ELSE RunProcs(Tail(ps), f, idx,
                                [st EXCEPT !.calls = Append(@, call),
                                           !.ret = Update(@, Output(p, f, idx, is_training))])

\* Line 83 for the modalities ms of group i.
RECURSIVE RunModalities(_, _, _, _)
RunModalities(ms, i, idx, st) ==
    IF st.exc # NoExc \/ ms = <<>> THEN st
    ELSE RunModalities(Tail(ms), i, idx,
                       RunProcs(Head(ms).procs, attrs[<<Head(ms).modality, i>>], idx, st))

\* Line 82, from group i on.
RECURSIVE RunGroups(_, _, _)
RunGroups(i, idx, st) ==
    IF st.exc # NoExc \/ i > Len(processors) THEN st
    ELSE RunGroups(i + 1, idx, RunModalities(processors[i], i, idx, st))

\* The try block of one frame, whose dictionary starts as ret.
TryBlock(idx, ret) == RunGroups(1, idx, [ret |-> ret, calls |-> <<>>, exc |-> NoExc])

NewRetShared(outer) == outer
\* `ret = dict()` of a frame entered from a frame whose dictionary is outer
NewRet(outer) == EmptyDict

ShouldRetryInclusive(ce) == ce <= GET_ITEM_ERROR_RETRY
\* `if self._consecutive_errors < GET_ITEM_ERROR_RETRY`
ShouldRetry(ce) == ce < GET_ITEM_ERROR_RETRY

NextIdxNoWrap(idx, n) == idx + 1
\* `(idx + 1) % self.__len__()`
NextIdx(idx, n) == (idx + 1) % n

RaisedFirst(frames, e) == IF frames = <<>> THEN e ELSE frames[1].exc
\* `raise e`: e of the frame that raises; it leaves the outer frames, which
\* are inside their except blocks, unhandled.
Raised(frames, e) == e

ErrorsKept(ce) == ce
\* `self._consecutive_errors = 0`
ErrorsAfterSuccess(ce) == 0

\* The caller's __getitem__(i).
GetItem(i) ==
    /\ pc = "idle"
    /\ i \in 0..(DatasetLen - 1)
    /\ consecutive_errors < GET_ITEM_ERROR_RETRY + MaxExtraErrors
    /\ pc' = "running"
    /\ stack' = << [idx |-> i, ret |-> NewRet(EmptyDict), exc |-> NoExc] >>
    /\ result' = "none"
    /\ retval' = EmptyDict
    /\ exc' = NoExc
    /\ idx0' = i
    /\ startErrors' = consecutive_errors
    /\ attempted' = <<>>
    /\ invoked' = <<>>
    /\ UNCHANGED <<data, is_training, bad, attrs, lengths, consecutive_errors, failedSince>>

\* The body of the innermost frame: the try block, then either lines 95-96
\* or the except block, up to its recursive call or its raise.  A return or
\* a raise passes through the outer frames unchanged.
Body ==
    /\ pc = "running"
    /\ LET top == stack[Len(stack)]
           outer == SubSeq(stack, 1, Len(stack) - 1)
           st == TryBlock(top.idx, top.ret)
       IN  /\ attempted' = Append(attempted, top.idx)
           /\ invoked' = invoked \o st.calls
           /\ IF st.exc = NoExc
              THEN /\ consecutive_errors' = ErrorsAfterSuccess(consecutive_errors)
                   /\ failedSince' = 0
                   /\ pc' = "idle"
                   /\ stack' = <<>>
                   /\ result' = "returned"
                   /\ retval' = st.ret
                   /\ exc' = NoExc
              ELSE /\ consecutive_errors' = consecutive_errors + 1
                   /\ failedSince' = failedSince + 1
                   /\ retval' = EmptyDict
                   /\ IF ShouldRetry(consecutive_errors')
                      THEN /\ pc' = "running"
                           /\ stack' = Append(Append(outer, [top EXCEPT !.ret = st.ret, !.exc = st.exc]),
                                              [idx |-> NextIdx(top.idx, DatasetLen),
                                               ret |-> NewRet(st.ret), exc |-> NoExc])
                           /\ result' = "none"
                           /\ exc' = NoExc
                      ELSE /\ pc' = "idle"
                           /\ stack' = <<>>
                           /\ result' = "raised"
                           /\ exc' = Raised(outer, st.exc)
    /\ UNCHANGED <<data, is_training, bad, attrs, lengths, idx0, startErrors>>

\* ------------------------------------------------------------------ inputs
NonEmptyRows(d) == {d[s].rows : s \in {t \in Slots : Truthy(d[t])}}

\* A sample can be bad only if every non-empty modality has it.
BadOk(d, b) == \A i \in DOMAIN b : b[i] # 0 => \A r \in NonEmptyRows(d) : i < r

Init ==
    /\ data \in { d \in [Slots -> Features] :
                    \A s \in Slots : d[s].modality = s[1] /\ d[s].group = s[2] }
    /\ is_training \in BOOLEAN
    /\ bad \in { b \in [0..(MaxLen - 1) -> {0} \cup ProcIds] : BadOk(data, b) }
    /\ attrs = [s \in {} |-> 0]
    /\ lengths = <<>>
    /\ consecutive_errors = 0
    /\ pc = "new"
    /\ stack = <<>>
    /\ result = "none"
    /\ retval = EmptyDict
    /\ exc = NoExc
    /\ idx0 = 0
    /\ startErrors = 0
    /\ attempted = <<>>
    /\ invoked = <<>>
    /\ failedSince = 0

Next == Construct \/ (\E i \in 0..(MaxLen - 1) : GetItem(i)) \/ Body

Spec == Init /\ [][Next]_vars

\* ================================================================ claims
Constructed == pc \in {"idle", "running"}
Finished == pc = "idle" /\ result # "none"

\* The slot (modality, group) whose processor list holds p, and p's place in
\* the visiting order: group, then modality, then processor.
Place == [p \in ProcIds |->
            CHOOSE t \in (1..Len(processors)) \X (1..2) \X (1..2) :
                /\ t[2] <= Len(processors[t[1]])
                /\ t[3] <= Len(processors[t[1]][t[2]].procs)
                /\ processors[t[1]][t[2]].procs[t[3]] = p]
SlotOf == [p \in ProcIds |-> <<processors[Place[p][1]][Place[p][2]].modality, Place[p][1]>>]
Before(p, q) ==
    LET a == Place[p]
        b == Place[q]
    IN  \/ a[1] < b[1]
        \/ a[1] = b[1] /\ a[2] < b[2]
        \/ a[1] = b[1] /\ a[2] = b[2] /\ a[3] < b[3]

\* The processors that are invoked: those of a modality with features.
Active == {p \in ProcIds : Truthy(attrs[SlotOf[p]])}

\* Sample i fails: a processor that is invoked raises on it.
Fails(i) == bad[i] \in Active

\* What each invoked processor is handed and returns for sample i.
CallOf(p, i) == <<p, attrs[SlotOf[p]], i, is_training>>
ValueOf(p, i) == [by |-> p, feat |-> attrs[SlotOf[p]], idx |-> i, train |-> is_training]

\* The dictionary of sample i: every key of an invoked processor, with the
\* value of the last invoked processor that has the key.
Expected(i) ==
    [k \in UNION {ProcKeys(p, i) : p \in Active} |->
        ValueOf(CHOOSE p \in Active :
                    /\ k \in ProcKeys(p, i)
                    /\ \A q \in Active : k \in ProcKeys(q, i) /\ q # p => Before(q, p), i)]

\* The invoked processors in visiting order, each with its arguments.
ExpectedCalls(i) ==
    [r \in 1..Cardinality(Active) |->
        CallOf(CHOOSE p \in Active :
                   Cardinality({q \in Active : Before(q, p)}) = r - 1, i)]

Window(j) == (idx0 + j) % DatasetLen

\* C1: a call made while _consecutive_errors is 0 ends (returns or raises)
\* after processing at most GET_ITEM_ERROR_RETRY sample indices, whichever
\* samples fail: it never processes more, and each step of it either ends it
\* or processes one more index.
C1_BoundedRetry ==
    /\ [](startErrors = 0 => Len(attempted) <= GET_ITEM_ERROR_RETRY)
    /\ [][(pc = "running" /\ startErrors = 0) =>
            \/ pc' = "idle" /\ result' \in {"returned", "raised"}
            \/ pc' = "running" /\ Len(attempted') = Len(attempted) + 1]_vars
C1_Witness ==
    /\ Finished /\ result = "raised" /\ startErrors = 0
    /\ Len(attempted) = GET_ITEM_ERROR_RETRY
    /\ \A i \in 0..(DatasetLen - 1) : Fails(i)

\* C2: in any sequence of calls, a call whose window of GET_ITEM_ERROR_RETRY
\* samples from idx on holds a sample that processes without error returns
\* and does not raise, however the earlier calls ended.
C2_Tolerance ==
    (Finished /\ result = "raised") =>
        \A j \in 0..(GET_ITEM_ERROR_RETRY - 1) : Fails(Window(j))

\* C3: when no processor raises for idx, the call returns the dictionary of
\* idx itself: the merge of the outputs of the processors of the modalities
\* with features, visited by group, modality and processor, a later one
\* overriding an earlier one on a key; no other processor is invoked.
C3_Merge ==
    (Finished /\ ~Fails(idx0)) =>
        /\ result = "returned"
        /\ attempted = <<idx0>>
        /\ invoked = ExpectedCalls(idx0)
        /\ retval = Expected(idx0)
C3_Witness ==
    /\ Finished /\ ~Fails(idx0) /\ result = "returned"
    /\ Active = ProcIds
    /\ idx0 = 1
    /\ startErrors > 0

\* C4: a dataset is constructed only if the modalities with a non-empty
\* feature dictionary all have the same sample number and there is one, and
\* __len__ is that number.
C4_SameSampleNumber ==
    Constructed =>
        /\ NonEmptyRows(data) # {}
        /\ \A s \in Slots : Truthy(data[s]) => data[s].rows = DatasetLen
C4_Witness ==
    /\ Constructed
    /\ DatasetLen = MaxLen
    /\ Cardinality({s \in Slots : Truthy(data[s])}) = 2

\* C5: a call made while _consecutive_errors is 0 that returns after k
\* failed attempts has processed idx, ..., idx+k (mod length), the first k
\* of which failed, and returns the dictionary of sample idx+k alone.
C5_NextGood ==
    (Finished /\ result = "returned" /\ startErrors = 0) =>
        LET k == Len(attempted) - 1
        IN  /\ k \in 0..(GET_ITEM_ERROR_RETRY - 1)
            /\ \A j \in 0..k : attempted[j + 1] = Window(j)
            /\ \A j \in 0..(k - 1) : Fails(Window(j))
            /\ ~Fails(Window(k))
            /\ retval = Expected(Window(k))
C5_Witness ==
    /\ Finished /\ result = "returned" /\ startErrors = 0
    /\ Len(attempted) = GET_ITEM_ERROR_RETRY
    /\ idx0 = 1
    /\ Active = ProcIds /\ bad[idx0] = 4

\* C6: a call made while _consecutive_errors is 0 whose window of
\* GET_ITEM_ERROR_RETRY samples all fail raises the exception of the last
\* sample of the window, and has processed the window and nothing else.
C6_Exhaustion ==
    (/\ Finished /\ startErrors = 0
     /\ \A j \in 0..(GET_ITEM_ERROR_RETRY - 1) : Fails(Window(j))) =>
        LET last == Window(GET_ITEM_ERROR_RETRY - 1)
        IN  /\ result = "raised"
            /\ exc = [sample |-> last, proc |-> bad[last]]
            /\ attempted = [j \in 1..GET_ITEM_ERROR_RETRY |-> Window(j - 1)]
C6_Witness ==
    /\ Finished /\ startErrors = 0 /\ result = "raised"
    /\ exc.sample # idx0
    /\ exc.proc # bad[idx0]

\* C7: every index a call processes or hands to a processor lies in
\* [0, length), and each retried index is the previous one plus 1 modulo the
\* length.
C7_IndexInRange ==
    Constructed =>
        /\ \A j \in 1..Len(attempted) :
              /\ attempted[j] \in 0..(DatasetLen - 1)
              /\ j > 1 => attempted[j] = (attempted[j - 1] + 1) % DatasetLen
        /\ \A j \in 1..Len(invoked) : invoked[j][3] \in 0..(DatasetLen - 1)
        /\ \A j \in 1..Len(stack) : stack[j].idx \in 0..(DatasetLen - 1)
C7_Witness ==
    /\ Constructed /\ DatasetLen >= 2
    /\ \E j \in 2..Len(attempted) :
          attempted[j - 1] = DatasetLen - 1 /\ attempted[j] = 0

\* C8: _consecutive_errors is the number of failed attempts since the last
\* successful attempt (or since construction), and is 0 after a call that
\* returned.
C8_Counter ==
    /\ pc # "new" => consecutive_errors = failedSince
    /\ (Finished /\ result = "returned") => consecutive_errors = 0
C8_Witness ==
    /\ Finished /\ result = "raised"
    /\ consecutive_errors > GET_ITEM_ERROR_RETRY
====
